---- MODULE Spec2Model ----
(***************************************************************************)
(* credshed: lib/validation.py (is_email, is_hash) and lib/account.py      *)
(* (Account construction, document, from_document).                        *)
(*                                                                         *)
(* A byte string is a sequence of one-character strings.  Every byte of    *)
(* the model is ASCII, so the text codec of lib/util.py (decode, encode,   *)
(* clean_encoding) has nothing to repair.                                  *)
(***************************************************************************)
EXTENDS Integers, Sequences, FiniteSets

VARIABLES pc, raw, acct, doc, acct2, query, answer

vars == <<pc, raw, acct, doc, acct2, query, answer>>

---------------------------------------------------------------------------
(* Byte-string primitives of Python that the code relies on.               *)

Range(s) == {s[i] : i \in 1..Len(s)}

Rep(c, n) == [i \in 1..n |-> c]

Lowercase == <<"a", "b", "c", "d", "e", "f", "g", "h", "i", "j", "k", "l", "m", "n", "o", "p", "q", "r", "s", "t", "u", "v", "w", "x", "y", "z">>

Uppercase == <<"A", "B", "C", "D", "E", "F", "G", "H", "I", "J", "K", "L", "M", "N", "O", "P", "Q", "R", "S", "T", "U", "V", "W", "X", "Y", "Z">>

Letters == Range(Lowercase) \cup Range(Uppercase)

Digits == {"0", "1", "2", "3", "4", "5", "6", "7", "8", "9"}

\* the byte 0x0b (vertical tab); the string holds that one character
VT == ""

\* bytes.strip() with no argument strips the six ASCII whitespace bytes
\* 0x20, 0x09, 0x0a, 0x0d, 0x0c and 0x0b
Whitespace == {" ", "\t", "\n", "\r", "\f", VT}

CRLF == {"\r", "\n"}

\* bytes.strip(chars): drop the leading and trailing bytes that are in chars
strip(s, chars) ==
    IF \A i \in 1..Len(s) : s[i] \in chars THEN <<>>
    ELSE LET lo == CHOOSE i \in 1..Len(s) :
                       s[i] \notin chars /\ \A j \in 1..(i - 1) : s[j] \in chars
             hi == CHOOSE i \in 1..Len(s) :
                       s[i] \notin chars /\ \A j \in (i + 1)..Len(s) : s[j] \in chars
         IN  SubSeq(s, lo, hi)

lower_byte(c) ==
    IF \E i \in 1..Len(Uppercase) : Uppercase[i] = c
    THEN Lowercase[CHOOSE i \in 1..Len(Uppercase) : Uppercase[i] = c]
    ELSE c

\* bytes.lower()
lower(s) == [i \in 1..Len(s) |-> lower_byte(s[i])]

\* bytes.translate(None, delete)
translate(s, delete) == LET keep(c) == c \notin delete IN SelectSeq(s, keep)

\* s[::-1]
reverse(s) == [i \in 1..Len(s) |-> s[Len(s) + 1 - i]]

\* s[:n]
HeadOffByOne(s, n) == IF Len(s) <= n + 1 THEN s ELSE SubSeq(s, 1, n + 1)

Head_n(s, n) == IF Len(s) <= n THEN s ELSE SubSeq(s, 1, n)

\* s[-n:]
Tail_n(s, n) == IF Len(s) <= n THEN s ELSE SubSeq(s, Len(s) - n + 1, Len(s))

---------------------------------------------------------------------------
(* lib/validation.py                                                       *)

EmailMaxLen == 128
TldMin == 2
TldMax == 8
Base64MinLen == 10
HashRunMin == 20
ExtPrefixMax == 13
ExtHashMinLen == 23

EmailLocalChars == Letters \cup Digits \cup {"_", "-", ".", "+"}

EmailDomainChars == Letters \cup Digits \cup {"_", "-", "."}

HexChars == Digits \cup {"a", "b", "c", "d", "e", "f", "A", "B", "C", "D", "E", "F"}

ExtHashChars == Letters \cup Digits \cup {":", "/", "."}

\* the whole of s is  local "@" domain "." tld ; no class holds "@" and the
\* tld holds no ".", so "@" is the only one and "." is the last one
EmailShape(s) ==
    \E p \in 2..Len(s) : \E q \in (Len(s) - TldMax)..(Len(s) - TldMin) :
        /\ q >= p + 2
        /\ s[p] = "@"
        /\ s[q] = "."
        /\ \A i \in 1..(p - 1) : s[i] \in EmailLocalChars
        /\ \A i \in (p + 1)..(q - 1) : s[i] \in EmailDomainChars
        /\ \A i \in (q + 1)..Len(s) : s[i] \in Letters

\* email_regex_bytes.match(s): re.I, and "$" also matches just before a
\* newline that ends the string
email_regex_bytes(s) ==
    \/ EmailShape(s)
    \/ /\ Len(s) > 0
       /\ s[Len(s)] = "\n"
       /\ EmailShape(SubSeq(s, 1, Len(s) - 1))

is_email(email) ==
    IF Len(email) > EmailMaxLen THEN FALSE ELSE email_regex_bytes(email)

B64Alphabet == Letters \cup Digits \cup {"+", "/"}

\* b64decode(s) returns (TRUE) or raises binascii.Error (FALSE).  Bytes
\* outside the alphabet are skipped; a "=" ends the input once the running
\* pads complete a quad that holds at least two data bytes; otherwise the
\* data bytes must fill whole quads.
b64decode(s) ==
    LET data(i) == s[i] \in B64Alphabet
        quad_pos(i) == Cardinality({j \in 1..(i - 1) : data(j)}) % 4
        pads(i) == Cardinality({j \in 1..i :
                       s[j] = "=" /\ \A k \in j..i : ~data(k)})
        done(i) == /\ s[i] = "="
                   /\ quad_pos(i) >= 2
                   /\ quad_pos(i) + pads(i) >= 4
    IN  \/ \E i \in 1..Len(s) : done(i)
        \/ quad_pos(Len(s) + 1) = 0

\* hash_regex.match(s): [a-f0-9]{20,} with re.I, anchored at the start by match()
hash_regex_run21(s) ==
    /\ Len(s) >= HashRunMin + 1
    /\ \A i \in 1..(HashRunMin + 1) : s[i] \in HexChars

hash_regex(s) ==
    /\ Len(s) >= HashRunMin
    /\ \A i \in 1..HashRunMin : s[i] \in HexChars

\* extended_hash_regex.match(s): \$.{1,13}\$[a-z0-9:/\.]{20,} with re.I
extended_hash_regex(s) ==
    /\ Len(s) >= 1
    /\ s[1] = "$"
    /\ \E k \in 1..ExtPrefixMax :
          /\ k + 2 + HashRunMin <= Len(s)
          /\ \A j \in 2..(k + 1) : s[j] # "\n"
          /\ s[k + 2] = "$"
          /\ \A j \in (k + 3)..(k + 2 + HashRunMin) : s[j] \in ExtHashChars

is_hash(s) ==
    IF Len(s) > Base64MinLen /\ s[Len(s)] = "="
    THEN b64decode(s)
    ELSE \/ hash_regex(s)
         \/ Len(s) >= ExtHashMinLen /\ extended_hash_regex(s)

---------------------------------------------------------------------------
(* lib/util.py: the text codec.  On ASCII bytes decoding, encoding and     *)
(* repairing leave the value as it is.                                     *)

decode(b) == b

encode(s) == s

clean_encoding(b) == encode(decode(b))

---------------------------------------------------------------------------
(* lib/account.py: Account.__init__                                        *)

valid_email_chars == <<"a", "b", "c", "d", "e", "f", "g", "h", "i", "j", "k", "l", "m", "n", "o", "p", "q", "r", "s", "t", "u", "v", "w", "x", "y", "z", "0", "1", "2", "3", "4", "5", "6", "7", "8", "9", "-", "_", ".", "+", "@">>

max_length_1 == 128

max_length_2 == 1000

MiscMinLen == 100

\* the result of a construction that raised AccountCreationError
Failed ==
    [status |-> "error", email |-> <<>>, username |-> <<>>, password |-> <<>>,
     hash |-> <<>>, misc |-> <<>>]

\* lines 66-71: trim, lowercase, keep the bytes of valid_email_chars
filter_email(email) ==
    LET valid(c) == c \in Range(valid_email_chars)
    IN  SelectSeq(lower(strip(email, Whitespace)), valid)

\* line 74
clean_username(username) == translate(strip(username, Whitespace), {"'", "\\"})

\* lines 80-90: promotion of an email-shaped username, else rejection
\* (strict) or demotion of an invalid email
email_step_lenient(email, username, strict) ==
    IF email = <<>>
    THEN IF is_email(username)
         THEN [raised |-> FALSE, email |-> lower(username), username |-> <<>>]
         ELSE [raised |-> FALSE, email |-> email, username |-> username]
    ELSE IF ~is_email(email) /\ username = <<>>
         THEN [raised |-> FALSE, email |-> <<>>, username |-> email]
         ELSE [raised |-> FALSE, email |-> email, username |-> username]

email_step_keepcase(email, username, strict) ==
    IF email = <<>>
    THEN IF is_email(username)
         THEN [raised |-> FALSE, email |-> username, username |-> <<>>]
         ELSE [raised |-> FALSE, email |-> email, username |-> username]
    ELSE IF ~is_email(email)
         THEN IF strict
              THEN [raised |-> TRUE, email |-> email, username |-> username]
              ELSE IF username = <<>>
                   THEN [raised |-> FALSE, email |-> <<>>, username |-> email]
                   ELSE [raised |-> FALSE, email |-> email, username |-> username]
         ELSE [raised |-> FALSE, email |-> email, username |-> username]

email_step(email, username, strict) ==
    IF email = <<>>
    THEN IF is_email(username)
         THEN [raised |-> FALSE, email |-> lower(username), username |-> <<>>]
         ELSE [raised |-> FALSE, email |-> email, username |-> username]
    ELSE IF ~is_email(email)
         THEN IF strict
              THEN [raised |-> TRUE, email |-> email, username |-> username]
              ELSE IF username = <<>>
                   THEN [raised |-> FALSE, email |-> <<>>, username |-> email]
                   ELSE [raised |-> FALSE, email |-> email, username |-> username]
         ELSE [raised |-> FALSE, email |-> email, username |-> username]

\* lines 93-95: the test is on the _hash argument, not on the trimmed field
hash_step(raw_hash, password, hash) ==
    IF raw_hash = <<>> /\ password # <<>> /\ is_hash(password)
    THEN [password |-> <<>>, hash |-> password]
    ELSE [password |-> password, hash |-> hash]

\* lines 98-99
misc_step_over(password, misc) ==
    IF misc = <<>> /\ Len(password) > MiscMinLen
    THEN [password |-> <<>>, misc |-> password]
    ELSE [password |-> password, misc |-> misc]

misc_step(password, misc) ==
    IF misc = <<>> /\ Len(password) >= MiscMinLen
    THEN [password |-> <<>>, misc |-> password]
    ELSE [password |-> password, misc |-> misc]

\* line 104
gate_username_only(f) == f.email # <<>> \/ f.username # <<>>

gate(f) ==
    \/ f.email # <<>>
    \/ /\ f.username # <<>>
       /\ (f.password # <<>> \/ f.misc # <<>> \/ f.hash # <<>>)

\* lines 109-113
truncate(f) ==
    [status |-> "ok",
     email |-> Tail_n(clean_encoding(f.email), max_length_1),
     username |-> Head_n(clean_encoding(f.username), max_length_1),
     password |-> Head_n(clean_encoding(f.password), max_length_1),
     hash |-> Head_n(clean_encoding(f.hash), max_length_2),
     misc |-> Head_n(clean_encoding(f.misc), max_length_2)]

Account(email, username, password, _hash, misc, strict) ==
    LET e0 == filter_email(email)
        u0 == clean_username(username)
        m0 == strip(misc, CRLF)
        p0 == strip(password, CRLF)
        h0 == strip(_hash, CRLF)
        s1 == email_step(e0, u0, strict)
        s2 == hash_step(_hash, p0, h0)
        s3 == misc_step(s2.password, m0)
        f  == [email |-> s1.email, username |-> s1.username,
               password |-> s3.password, hash |-> s2.hash, misc |-> s3.misc]
    IN  IF s1.raised THEN Failed
        ELSE IF ~gate(f) THEN Failed
        ELSE truncate(f)

---------------------------------------------------------------------------
(* lib/account.py: identifier, document, from_document                     *)

Min(S) == CHOOSE i \in S : \A j \in S : i <= j

\* self.email.split(b'@')[:2], or [email, b''] when there is no "@"
split_email(email) ==
    LET ats == {i \in 1..Len(email) : email[i] = "@"}
    IN  IF ats = {} THEN <<email, <<>>>>
        ELSE LET a1 == Min(ats)
                 rest == ats \ {a1}
                 a2 == IF rest = {} THEN Len(email) + 1 ELSE Min(rest)
             IN  <<SubSeq(email, 1, a1 - 1), SubSeq(email, a1 + 1, a2 - 1)>>

\* the 0x00 delimiter of Account.bytes
NUL == "\\x00"

bytes(a) ==
    a.email \o <<NUL>> \o a.username \o <<NUL>> \o a.password \o <<NUL>>
        \o a.hash \o <<NUL>> \o a.misc

\* base64 of the first n bytes of SHA-256(x), kept as the value it is taken of
digest(n, x) == [sha256_prefix |-> n, of |-> x]

\* '|'.join([domain_chunk, account_hash]), kept as its two parts
to_object_id(a) ==
    IF a.email # <<>>
    THEN [domain_chunk |-> decode(reverse(split_email(a.email)[2])),
          account_hash |-> <<digest(6, split_email(a.email)[1]), digest(6, bytes(a))>>]
    ELSE [domain_chunk |-> <<>>,
          account_hash |-> <<digest(12, bytes(a))>>]

\* _id.split('|')[0]: the text before the first "|"
first_chunk(id) ==
    LET s == id.domain_chunk \o <<"|">>
        bar == Min({i \in 1..Len(s) : s[i] = "|"})
    IN  SubSeq(s, 1, bar - 1)

NoDoc ==
    [has |-> {}, _id |-> [domain_chunk |-> <<>>, account_hash |-> <<>>],
     e |-> <<>>, u |-> <<>>, p |-> <<>>, h |-> <<>>, m |-> <<>>]

\* Account.document: a key is present only when its field is not empty
document(a) ==
    [has |-> {"_id"} \cup (IF a.email # <<>> THEN {"e"} ELSE {})
                     \cup (IF a.username # <<>> THEN {"u"} ELSE {})
                     \cup (IF a.password # <<>> THEN {"p"} ELSE {})
                     \cup (IF a.hash # <<>> THEN {"h"} ELSE {})
                     \cup (IF a.misc # <<>> THEN {"m"} ELSE {}),
     _id |-> to_object_id(a),
     e |-> IF a.email # <<>> THEN decode(split_email(a.email)[1]) ELSE <<>>,
     u |-> decode(a.username),
     p |-> decode(a.password),
     h |-> decode(a.hash),
     m |-> decode(a.misc)]

_if_key_exists(d, k) == IF k \in d.has THEN encode(d[k]) ELSE <<>>

\* lines 185-188: a missing 'e' or '_id' key (KeyError) leaves the email empty
from_document(d) ==
    LET email == IF "e" \in d.has /\ "_id" \in d.has
                 THEN encode(d.e \o <<"@">> \o reverse(first_chunk(d._id)))
                 ELSE <<>>
    IN  Account(email, _if_key_exists(d, "u"), _if_key_exists(d, "p"),
                _if_key_exists(d, "h"), _if_key_exists(d, "m"), FALSE)

---------------------------------------------------------------------------
(* The raw tuples and hash candidates the operations are applied to.       *)

\* how far around each length threshold of the code the inputs range
Slack == 1

Around(n) == (n - Slack)..(n + Slack)

ValidEmail == <<"a", "@", "b", ".", "c", "o">>

JohnDoe == <<"J", "o", "h", "n", ".", "D", "o", "e", "@", "E", "x", "a", "m", "p", "l", "e", ".", "c", "o", "m">>

Md5Hex == <<"5", "f", "4", "d", "c", "c", "3", "b", "5", "a", "a", "7", "6", "5", "d", "6", "1", "d", "8", "3", "2", "7", "d", "e", "b", "8", "8", "2", "c", "f", "9", "9">>

Hunter2 == <<"h", "u", "n", "t", "e", "r", "2">>

Bob == <<"b", "o", "b">>

EmailInputs ==
    {<<>>, ValidEmail,
     <<" ", "A", "@", "B", ".", "c", "o", " ">>,
     <<"!", "!">>,
     <<"f", "o", "o">>,
     <<"a", "@", "b", "@", "c", ".", "c", "o">>}
    \cup {Rep("a", n - 5) \o <<"@", "b", ".", "c", "o">> : n \in Around(EmailMaxLen)}

UsernameInputs ==
    {<<>>, Bob, JohnDoe,
     ValidEmail \o <<"\n">>,
     <<VT, "o", "'", "b", "\\", " ">>,
     ValidEmail \o <<VT>>}
    \cup {Rep("u", max_length_1 + Slack)}

PasswordInputs ==
    {<<>>, Hunter2, Md5Hex,
     Rep("z", MiscMinLen - 1) \o <<"\n">>,
     Rep("z", max_length_1 + Slack),
     Rep("z", max_length_2 + Slack),
     Rep("a", MiscMinLen + Slack)}
    \cup {Rep("z", n) : n \in Around(MiscMinLen)}

HashInputs == {<<>>, <<"\n">>, Rep("h", max_length_2 + Slack)}

MiscInputs == {<<>>, <<"\r", "\n">>, Rep("m", max_length_2 + Slack)}

HashQueries ==
    {pre \o Rep(c, n) \o suf :
        pre \in {<<>>, <<"x">>, <<"$", "1", "$">>},
        c \in {"a", "z"},
        n \in Around(HashRunMin),
        suf \in {<<>>, <<"=">>, <<"=", "=">>, <<"!">>}}
    \cup {Md5Hex, <<"h", "e", "l", "l", "o">>}

---------------------------------------------------------------------------
(* The operations.                                                         *)

NoRaw ==
    [email |-> <<>>, username |-> <<>>, password |-> <<>>, hash |-> <<>>,
     misc |-> <<>>, strict |-> FALSE]

NoAccount ==
    [status |-> "none", email |-> <<>>, username |-> <<>>, password |-> <<>>,
     hash |-> <<>>, misc |-> <<>>]

Init ==
    /\ pc = "idle"
    /\ raw = NoRaw
    /\ acct = NoAccount
    /\ doc = NoDoc
    /\ acct2 = NoAccount
    /\ query = <<>>
    /\ answer = FALSE

\* Account(email, username, password, _hash, misc, strict) on a raw tuple
Construct ==
    /\ pc = "idle"
    /\ \E e \in EmailInputs, u \in UsernameInputs, p \in PasswordInputs,
          h \in HashInputs, m \in MiscInputs, s \in BOOLEAN :
          /\ raw' = [email |-> e, username |-> u, password |-> p, hash |-> h,
                     misc |-> m, strict |-> s]
          /\ acct' = Account(e, u, p, h, m, s)
    /\ pc' = "constructed"
    /\ UNCHANGED <<doc, acct2, query, answer>>

\* account.document of a constructed record
Document ==
    /\ pc = "constructed"
    /\ acct.status = "ok"
    /\ doc' = document(acct)
    /\ pc' = "stored"
    /\ UNCHANGED <<raw, acct, acct2, query, answer>>

\* Account.from_document(document)
FromDocument ==
    /\ pc = "stored"
    /\ acct2' = from_document(doc)
    /\ pc' = "loaded"
    /\ UNCHANGED <<raw, acct, doc, query, answer>>

\* validation.is_hash(s)
IsHash ==
    /\ pc = "idle"
    /\ \E s \in HashQueries :
          /\ query' = s
          /\ answer' = is_hash(s)
    /\ pc' = "answered"
    /\ UNCHANGED <<raw, acct, doc, acct2>>

Next == Construct \/ Document \/ FromDocument \/ IsHash

Spec == Init /\ [][Next]_vars

Constructed == pc \in {"constructed", "stored", "loaded"}

---------------------------------------------------------------------------
(* Properties.                                                             *)

\* C1, as stated: with strict set, a raw email that is not empty and is not
\* a strictly valid email makes the construction fail, whatever the other
\* fields hold.
C1_StrictRejectsRawEmail ==
    (Constructed /\ raw.strict /\ raw.email # <<>> /\ ~is_email(raw.email))
        => acct.status = "error"

\* C1, amended: with strict set, an email that is not empty after the
\* filtering of lines 66-71 and is not a strictly valid email makes the
\* construction fail, whatever the other fields hold.
C1_StrictRejectsFilteredEmail ==
    (/\ Constructed
     /\ raw.strict
     /\ filter_email(raw.email) # <<>>
     /\ ~is_email(filter_email(raw.email)))
        => acct.status = "error"

C1_Witness ==
    /\ Constructed
    /\ raw.strict
    /\ raw.email = <<"f", "o", "o">>
    /\ raw.username = Bob
    /\ raw.password = Hunter2
    /\ acct.status = "error"

\* C2, as stated: a valid email, an empty misc and a password of at least
\* 100 bytes give a record with misc = password and password empty.
C2_OverlongPasswordRaw ==
    (/\ Constructed
     /\ is_email(raw.email)
     /\ raw.misc = <<>>
     /\ Len(raw.password) >= MiscMinLen)
        => /\ acct.status = "ok"
           /\ acct.misc = raw.password
           /\ acct.password = <<>>

\* C2, amended: a valid email, an empty misc and a password that, once its
\* leading and trailing CR/LF are trimmed, has at least 100 bytes and is not
\* a hash by is_hash, give a record whose misc is the first 1000 bytes of
\* the trimmed password and whose password is empty.
C2_OverlongPasswordTrimmed ==
    LET pw == strip(raw.password, CRLF)
    IN  (/\ Constructed
         /\ is_email(raw.email)
         /\ raw.misc = <<>>
         /\ Len(pw) >= MiscMinLen
         /\ ~is_hash(pw))
            => /\ acct.status = "ok"
               /\ acct.misc = Head_n(pw, max_length_2)
               /\ acct.password = <<>>

C2_Witness ==
    /\ Constructed
    /\ raw.email = ValidEmail
    /\ raw.misc = <<>>
    /\ Len(raw.password) = MiscMinLen
    /\ acct.status = "ok"
    /\ acct.misc = raw.password
    /\ acct.password = <<>>

\* C3: a record with a non-empty email, turned into its document and read
\* back with from_document, has the same email.
C3_EmailRoundTrip ==
    (pc = "loaded" /\ acct.email # <<>>)
        => (acct2.status = "ok" /\ acct2.email = acct.email)

\* C4, as stated: an empty email and a username that is_email accepts give a
\* record with email = lowercase(username) and an empty username.
C4_PromotionRaw ==
    (Constructed /\ raw.email = <<>> /\ is_email(raw.username))
        => /\ acct.status = "ok"
           /\ acct.email = lower(raw.username)
           /\ acct.username = <<>>

\* C4, amended: an empty email and a username that is_email accepts give a
\* record whose email is the lowercased username without its surrounding
\* whitespace (is_email accepts one trailing newline) and whose username is
\* empty.
C4_PromotionTrimmed ==
    (Constructed /\ raw.email = <<>> /\ is_email(raw.username))
        => /\ acct.status = "ok"
           /\ acct.email = lower(strip(raw.username, Whitespace))
           /\ acct.username = <<>>

C4_Witness ==
    /\ Constructed
    /\ raw.email = <<>>
    /\ raw.username = JohnDoe
    /\ raw.password = Hunter2
    /\ acct.status = "ok"
    /\ acct.email = <<"j", "o", "h", "n", ".", "d", "o", "e", "@", "e", "x", "a", "m", "p", "l", "e", ".", "c", "o", "m">>
    /\ acct.username = <<>>
    /\ acct.password = Hunter2

ValidRecord(a) ==
    \/ a.email # <<>>
    \/ /\ a.username # <<>>
       /\ (a.password # <<>> \/ a.hash # <<>> \/ a.misc # <<>>)

\* C5: every record a construction returns has a non-empty email, or a
\* non-empty username with a non-empty password, hash or misc; a raw tuple
\* left with neither email nor username, the all-empty tuple among them,
\* fails.
C5_ValidityGate ==
    /\ acct.status = "ok" => ValidRecord(acct)
    /\ acct2.status = "ok" => ValidRecord(acct2)
    /\ (/\ Constructed
        /\ filter_email(raw.email) = <<>>
        /\ clean_username(raw.username) = <<>>) => acct.status = "error"
    /\ (/\ Constructed
        /\ raw.email = <<>> /\ raw.username = <<>> /\ raw.password = <<>>
        /\ raw.hash = <<>> /\ raw.misc = <<>>) => acct.status = "error"

C5_Witness ==
    /\ Constructed
    /\ acct.status = "ok"
    /\ acct.email = <<>>
    /\ acct.username = Bob
    /\ acct.password = <<>>
    /\ acct.misc = <<>>
    /\ acct.hash = Md5Hex

WithinLengths(a) ==
    /\ Len(a.email) <= max_length_1
    /\ Len(a.username) <= max_length_1
    /\ Len(a.password) <= max_length_1
    /\ Len(a.hash) <= max_length_2
    /\ Len(a.misc) <= max_length_2

\* C7: every record a construction returns has email, username and password
\* of at most 128 bytes and hash and misc of at most 1000 bytes.
C7_LengthBound ==
    /\ acct.status = "ok" => WithinLengths(acct)
    /\ acct2.status = "ok" => WithinLengths(acct2)

C7_Witness ==
    /\ Constructed
    /\ acct.status = "ok"
    /\ Len(raw.username) > max_length_1
    /\ Len(acct.username) = max_length_1
    /\ Len(raw.password) > max_length_2
    /\ raw.misc = <<>>
    /\ Len(acct.misc) = max_length_2

\* C8: when the hash is empty after the CR/LF trimming and the trimmed
\* password is not empty and is a hash by is_hash, the record has
\* hash = password and an empty password.
C8_PasswordToHash ==
    LET pw == strip(raw.password, CRLF)
    IN  (/\ Constructed
         /\ acct.status = "ok"
         /\ strip(raw.hash, CRLF) = <<>>
         /\ pw # <<>>
         /\ is_hash(pw))
            => (acct.hash = pw /\ acct.password = <<>>)

HasHexRun(s) ==
    \E i \in 1..(Len(s) - HashRunMin + 1) :
        \A j \in i..(i + HashRunMin - 1) : s[j] \in HexChars

StartsWithHexRun(s) ==
    Len(s) >= HashRunMin /\ \A j \in 1..HashRunMin : s[j] \in HexChars

EndsWithPad(s) == Len(s) > Base64MinLen /\ s[Len(s)] = "="

\* C9, as stated: is_hash is true of every string that holds a run of at
\* least 20 hex characters anywhere, unless the base64 rule already
\* returned true.
C9_HexRunAnywhere ==
    (/\ pc = "answered"
     /\ HasHexRun(query)
     /\ ~(EndsWithPad(query) /\ b64decode(query)))
        => answer = TRUE

\* C9, amended: is_hash is true of every string that begins with a run of
\* at least 20 hex characters, unless the string is longer than 10 bytes
\* and ends with "=" (the base64 attempt alone then decides).
C9_HexRunAtStart ==
    (pc = "answered" /\ StartsWithHexRun(query) /\ ~EndsWithPad(query))
        => answer = TRUE

C9_Witness ==
    /\ pc = "answered"
    /\ query = Rep("a", HashRunMin) \o <<"!">>
    /\ answer = TRUE

\* C10: a record turned into its document and read back with from_document
\* has the same username, password, hash and misc.
C10_ReconstructionKeepsFields ==
    pc = "loaded"
        => /\ acct2.status = "ok"
           /\ acct2.username = acct.username
           /\ acct2.password = acct.password
           /\ acct2.hash = acct.hash
           /\ acct2.misc = acct.misc

====
